---- MODULE Spec2Model ----
(***************************************************************************)
(* File-system mailbox store (pkg/storage/file/fstore.go).                 *)
(*                                                                         *)
(* The disk is the set of directories under the mail root, one index file  *)
(* per mailbox and the raw content files of each mailbox.  Callers run the *)
(* Store operations step by step; a step is one lock acquisition or the    *)
(* file-system calls made between two lock operations.                     *)
(***************************************************************************)
EXTENDS Integers, Sequences, FiniteSets, TLC

\* ------------------------------------------------------------------ bounds
\* Store operations issued in one run by concurrent callers.
MaxOps == 2
\* Store operations issued in one run by a single caller.
MaxSeqOps == 4
\* Messages already stored when a run of concurrent callers begins.
MaxStored == 1
\* The failure specification: I/O failures injected in one run, operations
\* issued in it, messages stored when it begins.
MaxFaults == 1
MaxFaultOps == 2
MaxFaultStored == 2
\* generateID calls in a run of the identifier generator alone: more than
\* one cycle of the counter.
MaxIssued == 10002
\* generateID calls in a run of the generator under fairness.
MaxGenCalls == 24
\* A run of VisitMailboxes: messages stored before it, calls, I/O failures.
MaxVisitStored == 2
MaxVisits == 1
MaxVisitFaults == 1

\* ------------------------------------------------------- program constants
\* mbox(): s1 := dir[0:3], s2 := dir[0:6]
Shard1Len == 3
Shard2Len == 6
\* make(chan int, 10) and i = (i + 1) % 10000 in countGenerator.
ChanCap == 10
CounterMod == 10000

\* --------------------------------------------------------------- universes
Procs == {"p1", "p2"}
None == "none"

\* Mailbox names the callers use (already normalised by ParseMailboxName).
Mailboxes == {"ma", "mb", "mc"}
\* The callers of one run address two mailboxes: two that share both shard
\* directories, or two that share only the first.
Pools == {{"ma", "mb"}, {"ma", "mc"}}

\* stringutil.HashMailboxName: a deterministic fixed-length token per name.
\* "ma" and "mb" share both shard directories, "mc" shares only the first.
HashMailboxName(name) ==
    CASE name = "ma" -> <<1, 1, 1, 1, 1, 1, 1>>
      [] name = "mb" -> <<1, 1, 1, 1, 1, 1, 2>>
      [] name = "mc" -> <<1, 1, 1, 2, 1, 1, 1>>

\* Store.mbox: path = mailPath/s1/s2/dir, as the list of path elements below
\* mailPath.
MboxPath(name) ==
    LET dir == HashMailboxName(name)
    IN  <<SubSeq(dir, 1, Shard1Len), SubSeq(dir, 1, Shard2Len), dir>>

\* filepath.Dir
Dir(path) == SubSeq(path, 1, Len(path) - 1)

\* The mailboxes stored in directory `path`.
MboxesAt(path) == {m \in Mailboxes : MboxPath(m) = path}

\* "latest" in getMessage; generated identifiers are 1, 2, ...
Latest == 0

\* What a caller hands to AddMessage (StoreMessage: Date, From, To, Subject
\* and the raw content, of which only the length matters here).
Content1 == [date |-> 7, from |-> "a@x", to |-> <<"b@y">>, subject |-> "hi", size |-> 2]
Content2 == [date |-> 8, from |-> "c@z", to |-> <<"b@y", "d@w">>, subject |-> "", size |-> 0]
\* Each caller delivers its own message; the stored messages are Content2.
ContentsOf(p) == IF p = "p1" THEN {Content1} ELSE {Content2}

NoContent == [date |-> 0, from |-> "", to |-> <<>>, subject |-> "", size |-> 0]

OpNames == {"Add", "Get", "GetAll", "Remove", "Purge"}
Mutating == {"Add", "Remove", "Purge"}

\* ------------------------------------------------------------ file content
\* An index file: absent, or a gob stream of a header (the mailbox name) and
\* message records; `torn` marks a stream that ends inside a record.
NoFile == [exists |-> FALSE, hasHdr |-> FALSE, name |-> "", recs |-> <<>>, torn |-> FALSE]
EmptyFile == [NoFile EXCEPT !.exists = TRUE]

\* gob encoding of a Message: the exported fields, in order; the unexported
\* back-reference `mailbox` is not written.
EncodeMsg(m) == <<m.Fid, m.Fdate, m.Ffrom, m.Fto, m.Fsubject, m.Fsize>>

\* A variant of the decoding that exchanges From and Subject.
DecodeMsg_Swapped(rec, owner) ==
    [mailbox |-> owner, Fid |-> rec[1], Fdate |-> rec[2], Ffrom |-> rec[5],
     Fto |-> rec[4], Fsubject |-> rec[3], Fsize |-> rec[6]]

\* gob decoding into &Message{}, then msg.mailbox = mb (readIndex).
DecodeMsg(rec, owner) ==
    [mailbox |-> owner, Fid |-> rec[1], Fdate |-> rec[2], Ffrom |-> rec[3],
     Fto |-> rec[4], Fsubject |-> rec[5], Fsize |-> rec[6]]

EncodeAll(msgs) == [i \in 1..Len(msgs) |-> EncodeMsg(msgs[i])]
DecodeAll(recs, owner) == [i \in 1..Len(recs) |-> DecodeMsg(recs[i], owner)]

\* The stream writeIndex produces for a handle.
IndexStream(name, msgs) ==
    [exists |-> TRUE, hasHdr |-> TRUE, name |-> name, recs |-> EncodeAll(msgs),
     torn |-> FALSE]

\* What is on disk when a write of IndexStream(name, msgs) failed after k
\* records reached the file: k = -1 nothing (not even the header), k < Len a
\* stream ending inside record k+1, k = Len everything (the close failed).
PartialStream(name, msgs, k) ==
    IF k < 0 THEN EmptyFile
    ELSE [exists |-> TRUE, hasHdr |-> TRUE, name |-> name,
          recs |-> EncodeAll(SubSeq(msgs, 1, k)), torn |-> k < Len(msgs)]

\* Identifiers of the entries of an index file.
IndexIds(f) == {f.recs[i][1] : i \in 1..Len(f.recs)}
IdsOf(msgs) == {msgs[i].Fid : i \in 1..Len(msgs)}
IdSeq(msgs) == [i \in 1..Len(msgs) |-> msgs[i].Fid]

\* ---------------------------------------------------------------- variables
VARIABLES
    dirs,       \* directories existing under mailPath (paths)
    index,      \* index[path]: the index file of the mailbox directory
    raw,        \* raw[path]: identifiers of the raw files in the directory
    indexMx,    \* [writer, readers]: the global sync.RWMutex
    dirMx,      \* holder of the global sync.Mutex, or None
    hashLock,   \* hashLock[path]: holder of the advisory lock, or None
    pc,         \* pc[p]: where caller p is
    call,       \* call[p]: [op, box, id, content] of p's current or last call;
                \* again: p's call before it was the same operation on the
                \* same mailbox and returned success
    mbox,       \* mbox[p]: p's handle [name, indexLoaded, messages]
    fm,         \* fm[p]: the message AddMessage is storing / removeMessage found
    ret,        \* ret[p]: result of p's last call
    out,        \* out[p]: messages returned by p's last call
    idCount,    \* identifiers generated so far
    opsLeft,    \* operations the callers may still issue in this run
    pool,       \* the mailboxes the callers of this run address
    useLock,    \* the callers of this run take the advisory lock (LockFor)
                \* around every AddMessage, RemoveMessage and PurgeMessages
    faultsLeft, \* I/O failures that may still be injected in this run
    ioFailed,   \* an injected I/O failure has happened
    onlyAdds,   \* onlyAdds[path]: every mutating call on the mailbox so far
                \* was an AddMessage that returned success
    cleanFail,  \* callers whose last AddMessage could not remove its raw file
    live,       \* live[path]: ids added with success and not since removed or purged
    added,      \* added[path]: records of the messages AddMessage stored with
                \* success, in order of return
    countChannel, \* the values buffered in the channel, oldest first
    genI,       \* the loop variable i of countGenerator: the value it sends next
    recvWait,   \* callers blocked in <-countChannel inside generateID
    issued,     \* number of values generateID calls have received so far
    lastIssued, \* the value received by the latest generateID to return, or -1
    genLeft,    \* generateID calls that may still be issued in this run
    before,     \* before[p]: the disk when p's RemoveMessage was called
    walk        \* walk[p]: where p's VisitMailboxes is: the directories still
                \* to read at each level (l1s, l2s, l3s), the mailbox
                \* directories found and those the visitor was called with,
                \* and whether the visitor has returned false

disk == <<dirs, index, raw>>
locks == <<indexMx, dirMx, hashLock>>
gen == <<countChannel, genI, recvWait, issued, lastIssued, genLeft>>
vars == <<dirs, index, raw, indexMx, dirMx, hashLock, pc, call, mbox, fm, ret, out,
          idCount, opsLeft, pool, useLock, faultsLeft, ioFailed, onlyAdds, cleanFail,
          added, live, countChannel, genI, recvWait, issued, lastIssued, genLeft, before,
          walk>>

MboxDirs == {MboxPath(m) : m \in Mailboxes}

NoMsg == [mailbox |-> None, Fid |-> 0, Fdate |-> 0, Ffrom |-> "", Fto |-> <<>>,
          Fsubject |-> "", Fsize |-> 0]
NoCall == [op |-> None, box |-> "ma", id |-> 0, content |-> NoContent, again |-> FALSE]
NoDisk == <<{}, <<>>, <<>>>>
NoWalk == [l1s |-> <<>>, l2s |-> <<>>, l3s |-> <<>>, found |-> <<>>,
           visited |-> <<>>, stopped |-> FALSE]
\* &mbox{store, name, dirName, path, indexPath}: indexLoaded false, no messages
NewHandle(name) == [name |-> name, indexLoaded |-> FALSE, messages |-> <<>>]

\* The directory of caller p's handle (mb.path).
Path(p) == MboxPath(call[p].box)

\* ------------------------------------------------------------ pure helpers
\* os.MkdirAll: the directory and every missing ancestor.
MkdirAll(ds, path) == ds \cup {SubSeq(path, 1, k) : k \in 1..Len(path)}

\* A variant of the listing that reports every directory empty.
Readdirnames_Empty(ds, path) == {}

\* f.Readdirnames(0) of a shard directory: its sub-directories.
Readdirnames(ds, path) == {d \in ds : Len(d) = Len(path) + 1 /\ Dir(d) = path}

\* A variant of removeDirIfEmpty that never removes.
removeDirIfEmpty_Never(ds, path) == [removed |-> FALSE, dirs |-> ds]

\* removeDirIfEmpty: [removed, dirs]. os.Open fails on a missing directory.
removeDirIfEmpty(ds, path) ==
    IF path \notin ds THEN [removed |-> FALSE, dirs |-> ds]
    ELSE IF Readdirnames(ds, path) # {} THEN [removed |-> FALSE, dirs |-> ds]
    ELSE [removed |-> TRUE, dirs |-> ds \ {path}]

\* A variant of removeDir that leaves every directory.
removeDir_KeepsDir(ds, path) == ds

\* removeDir, the directories it leaves: os.RemoveAll(mb.path), then the
\* parents while they are empty.
removeDir(ds, path) ==
    LET d0 == ds \ {path}
        r2 == removeDirIfEmpty(d0, Dir(path))
    IN  IF r2.removed THEN removeDirIfEmpty(r2.dirs, Dir(Dir(path))).dirs
        ELSE r2.dirs

\* createDir, the directories it leaves: os.Stat, then os.MkdirAll if absent.
createDir(ds, path) == IF path \in ds THEN ds ELSE MkdirAll(ds, path)

\* A variant of readIndex that marks the index loaded after a decode error.
readIndex_MarksLoaded(h, f, owner, openFails) ==
    LET h0 == [h EXCEPT !.messages = <<>>]
    IN  IF ~f.exists THEN [err |-> FALSE, mb |-> [h0 EXCEPT !.indexLoaded = TRUE]]
        ELSE IF openFails \/ ~f.hasHdr THEN [err |-> TRUE, mb |-> h0]
        ELSE [err |-> f.torn,
              mb |-> [h0 EXCEPT !.name = f.name, !.indexLoaded = TRUE,
                                 !.messages = DecodeAll(f.recs, owner)]]

\* readIndex on handle h with index file f: [err, mb]. The slice is cleared
\* first; a missing file is an empty mailbox; a decode error returns with
\* the records decoded so far still appended and indexLoaded false.
readIndex(h, f, owner, openFails) ==
    LET h0 == [h EXCEPT !.messages = <<>>]
    IN  IF ~f.exists THEN [err |-> FALSE, mb |-> [h0 EXCEPT !.indexLoaded = TRUE]]
        ELSE IF openFails \/ ~f.hasHdr THEN [err |-> TRUE, mb |-> h0]
        ELSE IF f.torn
             THEN [err |-> TRUE,
                   mb |-> [h0 EXCEPT !.name = f.name,
                                      !.messages = DecodeAll(f.recs, owner)]]
        ELSE [err |-> FALSE,
              mb |-> [h0 EXCEPT !.name = f.name, !.indexLoaded = TRUE,
                                 !.messages = DecodeAll(f.recs, owner)]]

\* Position of the first message with identifier id, 0 if there is none.
IndexOf(msgs, id) ==
    IF \E i \in 1..Len(msgs) : msgs[i].Fid = id
    THEN CHOOSE i \in 1..Len(msgs) :
            /\ msgs[i].Fid = id
            /\ \A j \in 1..(i - 1) : msgs[j].Fid # id
    ELSE 0

\* A variant of the slicing that also drops the message after the one found.
SliceAround_DropsNext(msgs, i) == SubSeq(msgs, 1, i - 1) \o SubSeq(msgs, i + 2, Len(msgs))

\* append(mb.messages[:i], mb.messages[i+1:]...)
SliceAround(msgs, i) == SubSeq(msgs, 1, i - 1) \o SubSeq(msgs, i + 1, Len(msgs))

\* getMessage after the index is loaded: [ret, out].
getMessage(msgs, id) ==
    IF id = Latest /\ Len(msgs) # 0 THEN [ret |-> "ok", out |-> <<msgs[Len(msgs)]>>]
    ELSE IF IndexOf(msgs, id) # 0
         THEN [ret |-> "ok", out |-> <<msgs[IndexOf(msgs, id)]>>]
    ELSE [ret |-> "notfound", out |-> <<>>]

\* getMessages after the index is loaded: a copy of the slice.
getMessages(msgs) == [i \in 1..Len(msgs) |-> msgs[i]]

\* AddMessage lines 123-128: the metadata is copied into fm and fm appended.
FillMessage(m, c) ==
    [m EXCEPT !.Fdate = c.date, !.Ffrom = c.from, !.Fto = c.to,
              !.Fsize = c.size, !.Fsubject = c.subject]

\* A variant of append that puts the new message first.
AppendMessage_Prepend(msgs, m) == <<m>> \o msgs

\* mb.messages = append(mb.messages, fm)
AppendMessage(msgs, m) == Append(msgs, m)

\* The callers and locks when a run begins.
InitCallers ==
    /\ indexMx = [writer |-> None, readers |-> {}]
    /\ dirMx = None
    /\ hashLock = [d \in MboxDirs |-> None]
    /\ pc = [p \in Procs |-> "idle"]
    /\ call = [p \in Procs |-> NoCall]
    /\ mbox = [p \in Procs |-> NewHandle("ma")]
    /\ fm = [p \in Procs |-> NoMsg]
    /\ ret = [p \in Procs |-> None]
    /\ out = [p \in Procs |-> <<>>]
    /\ ioFailed = FALSE
    /\ onlyAdds = [d \in MboxDirs |-> TRUE]
    /\ cleanFail = {}
    /\ useLock \in BOOLEAN
    /\ pool \in Pools
    /\ countChannel = <<>>
    /\ genI = 0
    /\ recvWait = {}
    /\ issued = 0
    /\ lastIssued = -1
    /\ walk = [p \in Procs |-> NoWalk]
    /\ before = [p \in Procs |-> NoDisk]

\* New(): an empty mail directory.
Init ==
    /\ InitCallers
    /\ dirs = {}
    /\ index = [d \in MboxDirs |-> NoFile]
    /\ raw = [d \in MboxDirs |-> {}]
    /\ idCount = 0
    /\ added = [d \in MboxDirs |-> <<>>]
    /\ live = [d \in MboxDirs |-> {}]
    /\ opsLeft = MaxSeqOps
    /\ faultsLeft = 0
    /\ genLeft = 0

\* A store that earlier runs left with n[m] messages in mailbox m, added one
\* after another: identifiers 1.. in the order ma, mb, mc.
StoredFirst(n, m) ==
    CASE m = "ma" -> 0
      [] m = "mb" -> n["ma"]
      [] m = "mc" -> n["ma"] + n["mb"]
StoredMsgs(n, m) ==
    [i \in 1..n[m] |->
        [NoMsg EXCEPT !.Fid = StoredFirst(n, m) + i, !.Fdate = Content2.date,
                      !.Ffrom = Content2.from, !.Fto = Content2.to,
                      !.Fsubject = Content2.subject, !.Fsize = Content2.size]]
StoredBox(d) == CHOOSE m \in Mailboxes : MboxPath(m) = d

Stored(max) ==
    /\ InitCallers
    /\ \E n \in [Mailboxes -> 0..max] :
        /\ \A m \in Mailboxes \ pool : n[m] = 0
        /\ n["ma"] + n["mb"] + n["mc"] <= max
        /\ dirs = UNION {MkdirAll({}, MboxPath(m)) : m \in {x \in Mailboxes : n[x] > 0}}
        /\ index = [d \in MboxDirs |->
                      IF n[StoredBox(d)] = 0 THEN NoFile
                      ELSE IndexStream(StoredBox(d), StoredMsgs(n, StoredBox(d)))]
        /\ raw = [d \in MboxDirs |-> IdsOf(StoredMsgs(n, StoredBox(d)))]
        /\ idCount = n["ma"] + n["mb"] + n["mc"]
        /\ added = [d \in MboxDirs |-> EncodeAll(StoredMsgs(n, StoredBox(d)))]
        /\ live = [d \in MboxDirs |-> IdsOf(StoredMsgs(n, StoredBox(d)))]

InitStored ==
    /\ Stored(MaxStored)
    /\ opsLeft = MaxOps
    /\ faultsLeft = 0
    /\ genLeft = 0

InitFault ==
    /\ Stored(MaxFaultStored)
    /\ opsLeft = MaxFaultOps
    /\ faultsLeft = MaxFaults
    /\ genLeft = 0

\* ----------------------------------------------------- control-flow helpers
\* Caller p goes on to step `next` with handle h and message m.
Goto(p, next, h, m) ==
    /\ pc' = [pc EXCEPT ![p] = next]
    /\ mbox' = [mbox EXCEPT ![p] = h]
    /\ fm' = [fm EXCEPT ![p] = m]
    /\ UNCHANGED <<ret, out, hashLock, added, live, cleanFail, onlyAdds, call, before>>

\* The call of p returns r with messages o; the handle goes out of scope and
\* the caller releases the advisory lock if it took it.  `dirty` records a
\* failed cleanup of the raw file.
Return(p, r, o, dirty) ==
    /\ pc' = [pc EXCEPT ![p] = "idle"]
    /\ mbox' = [mbox EXCEPT ![p] = NewHandle("ma")]
    /\ UNCHANGED <<fm, before>>
    /\ call' = [call EXCEPT ![p].content = NoContent]
    /\ ret' = [ret EXCEPT ![p] = r]
    /\ out' = [out EXCEPT ![p] = o]
    /\ hashLock' = IF hashLock[Path(p)] = p THEN [hashLock EXCEPT ![Path(p)] = None]
                   ELSE hashLock
    /\ onlyAdds' = IF call[p].op = "Add" /\ r # "ok"
                   THEN [onlyAdds EXCEPT ![Path(p)] = FALSE] ELSE onlyAdds
    /\ cleanFail' = IF dirty THEN cleanFail \cup {p} ELSE cleanFail \ {p}
    /\ added' = IF call[p].op = "Add" /\ r = "ok"
                THEN [added EXCEPT ![Path(p)] = Append(@, EncodeMsg(o[1]))]
                ELSE added
    /\ live' = CASE r # "ok" -> live
                [] call[p].op = "Add" -> [live EXCEPT ![Path(p)] = @ \cup {o[1].Fid}]
                [] call[p].op = "Remove" -> [live EXCEPT ![Path(p)] = @ \ {call[p].id}]
                [] call[p].op = "Purge" -> [live EXCEPT ![Path(p)] = {}]
                [] OTHER -> live

\* _ = os.Remove(fm.rawPath()) after a failure: the raw files left when the
\* removal succeeds (cleaned) or not.
RemoveRawFile(rawNow, d, id, cleaned) ==
    IF cleaned THEN [rawNow EXCEPT ![d] = @ \ {id}] ELSE rawNow

\* What the caller of writeIndex does when it has returned (err or not) and
\* the raw files of the directory are rawNow (lines 129-134, 318-328, 334).
\* Sets raw' and the caller's state.
AfterWriteIndex(p, err, rawNow) ==
    CASE call[p].op = "Add" ->
            IF err
            THEN \E cleaned \in BOOLEAN :
                    /\ raw' = RemoveRawFile(rawNow, Path(p), fm[p].Fid, cleaned)
                    /\ Return(p, "err", <<>>,
                              ~cleaned /\ fm[p].Fid \in rawNow[Path(p)])
            ELSE /\ raw' = rawNow
                 /\ Return(p, "ok", <<fm[p]>>, FALSE)
      [] call[p].op = "Remove" ->
            /\ raw' = rawNow
            /\ IF err THEN Return(p, "err", <<>>, FALSE)
               ELSE IF Len(mbox[p].messages) = 0 THEN Return(p, "ok", <<>>, FALSE)
               ELSE Goto(p, "rm_raw", mbox[p], fm[p])
      [] OTHER ->
            /\ raw' = rawNow
            /\ Return(p, IF err THEN "err" ELSE "ok", <<>>, FALSE)

\* ------------------------------------------------------------------ actions
\* An I/O call that can fail (cond: the call is made at all) fails or not,
\* while the run's failures last.
MayFail(cond) == IF cond /\ faultsLeft > 0 THEN BOOLEAN ELSE {FALSE}
Fault(fails) ==
    /\ faultsLeft' = IF fails THEN faultsLeft - 1 ELSE faultsLeft
    /\ ioFailed' = (ioFailed \/ fails)

\* A variant in which the callers do not wait for the advisory lock.
AdvisoryLockReady_NoWait(o, b) == TRUE

\* LockFor(mailbox).Lock() by a caller that serialises its mutating calls:
\* it waits until no other caller holds the mailbox's advisory lock.
AdvisoryLockReady(o, b) == (useLock /\ o \in Mutating) => hashLock[MboxPath(b)] = None

\* A caller issues a Store operation: fs.mbox(mailbox) makes a fresh handle.
\* With `lk` the caller first takes the mailbox's advisory lock (LockFor) in
\* write mode and holds it until the call returns.  purge() clears the slice
\* and goes straight to writeIndex; every other operation loads the index.
\* The identifiers a caller names: one it has seen in the mailbox's index,
\* "latest", or (getMessage) one that no message has yet.
CallIds(o, b) ==
    CASE o = "Get" -> IndexIds(index[MboxPath(b)]) \cup {Latest, idCount + 1}
      [] o = "Remove" -> IndexIds(index[MboxPath(b)]) \cup {Latest}
      [] OTHER -> {Latest}

\* The first step of each Store operation: purge() goes to writeIndex, the
\* others load the index first (for AddMessage inside newMessage).
FirstStep(o) == IF o = "Purge" THEN "wi_lock" ELSE "ri_lock"

Start(p) ==
    /\ pc[p] = "idle"
    /\ opsLeft > 0
    /\ \E o \in OpNames, b \in pool :
       \E id \in CallIds(o, b),
          c \in (IF o = "Add" THEN ContentsOf(p) ELSE {NoContent}) :
            /\ AdvisoryLockReady(o, b)
            /\ call' = [call EXCEPT ![p] =
                          [op |-> o, box |-> b, id |-> id, content |-> c,
                           again |-> (call[p].op = o /\ call[p].box = b
                                      /\ ret[p] = "ok")]]
            /\ hashLock' = IF useLock /\ o \in Mutating
                           THEN [hashLock EXCEPT ![MboxPath(b)] = p] ELSE hashLock
            /\ onlyAdds' = IF o \in {"Remove", "Purge"}
                           THEN [onlyAdds EXCEPT ![MboxPath(b)] = FALSE] ELSE onlyAdds
            /\ mbox' = [mbox EXCEPT ![p] = NewHandle(b)]
            /\ pc' = [pc EXCEPT ![p] = FirstStep(o)]
            /\ before' = [before EXCEPT ![p] = IF o = "Remove" THEN disk ELSE NoDisk]
    /\ fm' = [fm EXCEPT ![p] = NoMsg]
    /\ ret' = [ret EXCEPT ![p] = None]
    /\ out' = [out EXCEPT ![p] = <<>>]
    /\ opsLeft' = opsLeft - 1
    /\ UNCHANGED <<dirs, index, raw, indexMx, dirMx, idCount, pool, useLock, ioFailed,
                   faultsLeft, cleanFail, added, live>>

\* A variant of RLock that does not wait for the writer.
RLockReady_NoWait(p) == TRUE

\* A variant of RLock that also waits for the mailbox's advisory lock.
RLockReady_NeedsAdvisory(p) ==
    indexMx.writer = None /\ hashLock[Path(p)] \in {None, p}

\* indexMx.RLock(): waits while a writer holds the lock.
RLockReady(p) == indexMx.writer = None

RLock(p) ==
    /\ pc[p] = "ri_lock"
    /\ RLockReady(p)
    /\ indexMx' = [indexMx EXCEPT !.readers = @ \cup {p}]
    /\ Goto(p, "ri_read", mbox[p], fm[p])
    /\ UNCHANGED <<dirs, index, raw, dirMx, idCount, opsLeft, pool, useLock, ioFailed, faultsLeft>>

\* newMessage: the identifier of the new message (generateID takes the next
\* value; identifiers of one run are distinct).
newMessage(p) == [NoMsg EXCEPT !.mailbox = p, !.Fid = idCount + 1]

\* A variant of the index open that creates the mailbox directory first.
OpenIndex_Creates(ds, path) == createDir(ds, path)

\* os.Stat and os.Open of the index path (read only): the directories after.
OpenIndex(ds, path) == ds

\* readIndex under the read lock, RUnlock, and what the operation does with
\* the loaded slice before its next lock or file-system call.
ReadIndex(p) ==
    /\ pc[p] = "ri_read"
    /\ indexMx' = [indexMx EXCEPT !.readers = @ \ {p}]
    /\ \E openFails \in MayFail(index[Path(p)].exists) :
        LET r == readIndex(mbox[p], index[Path(p)], p, openFails)
            msgs == r.mb.messages
            i == IndexOf(msgs, call[p].id)
        IN  /\ Fault(openFails)
            /\ IF r.err THEN Return(p, "err", <<>>, FALSE) /\ UNCHANGED idCount
               ELSE CASE call[p].op = "Add" ->
                            /\ idCount' = idCount + 1
                            /\ Goto(p, "cd_lock", r.mb, newMessage(p))
                      [] call[p].op = "Get" ->
                            /\ Return(p, getMessage(msgs, call[p].id).ret,
                                      getMessage(msgs, call[p].id).out, FALSE)
                            /\ UNCHANGED idCount
                      [] call[p].op = "GetAll" ->
                            /\ Return(p, "ok", getMessages(msgs), FALSE)
                            /\ UNCHANGED idCount
                      [] call[p].op = "Visit" ->
                            /\ Goto(p, "v_call", r.mb, fm[p])
                            /\ UNCHANGED idCount
                      [] OTHER ->
                            /\ IF i = 0 THEN Return(p, "notfound", <<>>, FALSE)
                               ELSE Goto(p, "wi_lock",
                                         [r.mb EXCEPT !.messages = SliceAround(msgs, i)],
                                         msgs[i])
                            /\ UNCHANGED idCount
    /\ dirs' = OpenIndex(dirs, Path(p))
    /\ UNCHANGED <<index, raw, dirMx, opsLeft, pool, useLock>>

\* dirMx.Lock() in createDir and removeDir.
DirLockReady(p) == dirMx = None

DirLock(p) ==
    /\ pc[p] \in {"cd_lock", "wcd_lock", "rd_lock"}
    /\ DirLockReady(p)
    /\ dirMx' = p
    /\ Goto(p, CASE pc[p] = "cd_lock" -> "cd_body"
                 [] pc[p] = "wcd_lock" -> "wcd_body"
                 [] OTHER -> "rd_body", mbox[p], fm[p])
    /\ UNCHANGED <<dirs, index, raw, indexMx, idCount, opsLeft, pool, useLock, ioFailed, faultsLeft>>

\* A variant of the createDir call that returns without dirMx.Unlock().
CreateDir_KeepsDirMx(p) ==
    /\ pc[p] = "cd_body"
    /\ UNCHANGED dirMx
    /\ \E fails \in MayFail(Path(p) \notin dirs) :
        /\ Fault(fails)
        /\ IF fails THEN UNCHANGED dirs /\ Return(p, "err", <<>>, FALSE)
           ELSE /\ dirs' = createDir(dirs, Path(p))
                /\ Goto(p, "raw_create", mbox[p], fm[p])
    /\ UNCHANGED <<index, raw, indexMx, idCount, opsLeft, pool, useLock>>

\* AddMessage line 94: createDir under dirMx; an error returns.
CreateDir(p) ==
    /\ pc[p] = "cd_body"
    /\ dirMx' = None
    /\ \E fails \in MayFail(Path(p) \notin dirs) :
        /\ Fault(fails)
        /\ IF fails THEN UNCHANGED dirs /\ Return(p, "err", <<>>, FALSE)
           ELSE /\ dirs' = createDir(dirs, Path(p))
                /\ Goto(p, "raw_create", mbox[p], fm[p])
    /\ UNCHANGED <<index, raw, indexMx, idCount, opsLeft, pool, useLock>>

\* os.Create(fm.rawPath()): fails when the directory is gone.
RawCreate(p) ==
    /\ pc[p] = "raw_create"
    /\ IF Path(p) \notin dirs
       THEN UNCHANGED <<raw, ioFailed, faultsLeft>> /\ Return(p, "err", <<>>, FALSE)
       ELSE \E fails \in MayFail(TRUE) :
            /\ Fault(fails)
            /\ IF fails THEN UNCHANGED raw /\ Return(p, "err", <<>>, FALSE)
               ELSE /\ raw' = [raw EXCEPT ![Path(p)] = @ \cup {fm[p].Fid}]
                    /\ Goto(p, "raw_copy", mbox[p], fm[p])
    /\ UNCHANGED <<dirs, index, indexMx, dirMx, idCount, opsLeft, pool, useLock>>

\* io.Copy, w.Flush, file.Close; on a failure the raw file is removed (best
\* effort).  On success lines 123-128 fill fm and append it to the slice.
RawCopy(p) ==
    /\ pc[p] = "raw_copy"
    /\ \E fails \in MayFail(TRUE) :
        /\ Fault(fails)
        /\ IF fails
           THEN \E cleaned \in BOOLEAN :
                /\ raw' = RemoveRawFile(raw, Path(p), fm[p].Fid, cleaned)
                /\ Return(p, "err", <<>>, ~cleaned /\ fm[p].Fid \in raw[Path(p)])
           ELSE /\ UNCHANGED raw
                /\ Goto(p, "wi_lock",
                        [mbox[p] EXCEPT !.messages =
                            AppendMessage(@, FillMessage(fm[p], call[p].content))],
                        FillMessage(fm[p], call[p].content))
    /\ UNCHANGED <<dirs, index, indexMx, dirMx, idCount, opsLeft, pool, useLock>>

\* indexMx.Lock(): waits while any reader or writer holds the lock.
WLockReady(p) == indexMx.writer = None /\ indexMx.readers = {}

\* writeIndex takes the write lock and branches on len(mb.messages).
WLock(p) ==
    /\ pc[p] = "wi_lock"
    /\ WLockReady(p)
    /\ indexMx' = [indexMx EXCEPT !.writer = p]
    /\ Goto(p, IF Len(mbox[p].messages) > 0 THEN "wcd_lock" ELSE "rd_lock",
            mbox[p], fm[p])
    /\ UNCHANGED <<dirs, index, raw, dirMx, idCount, opsLeft, pool, useLock, ioFailed, faultsLeft>>

\* writeIndex line 390: createDir; an error unlocks and returns.
WriteIndexCreateDir(p) ==
    /\ pc[p] = "wcd_body"
    /\ dirMx' = None
    /\ \E fails \in MayFail(Path(p) \notin dirs) :
        /\ Fault(fails)
        /\ IF fails
           THEN /\ UNCHANGED dirs
                /\ indexMx' = [indexMx EXCEPT !.writer = None]
                /\ AfterWriteIndex(p, TRUE, raw)
           ELSE /\ dirs' = createDir(dirs, Path(p))
                /\ UNCHANGED <<indexMx, raw>>
                /\ Goto(p, "wi_create", mbox[p], fm[p])
    /\ UNCHANGED <<index, idCount, opsLeft, pool, useLock>>

\* writeIndex line 394: os.Create(mb.indexPath) truncates the index file.
WriteIndexCreate(p) ==
    /\ pc[p] = "wi_create"
    /\ \E fails \in MayFail(TRUE) :
        /\ Fault(fails)
        /\ IF fails
           THEN /\ UNCHANGED index
                /\ indexMx' = [indexMx EXCEPT !.writer = None]
                /\ AfterWriteIndex(p, TRUE, raw)
           ELSE /\ index' = [index EXCEPT ![Path(p)] = EmptyFile]
                /\ UNCHANGED <<indexMx, raw>>
                /\ Goto(p, "wi_flush", mbox[p], fm[p])
    /\ UNCHANGED <<dirs, dirMx, idCount, opsLeft, pool, useLock>>

\* The stream writeIndex writes for handle h (header, then every message).
writeIndexStream(h) == IndexStream(h.name, h.messages)

\* writeIndex lines 398-418: encode the header and the records, flush,
\* close, unlock.  A failure leaves what had reached the file.
WriteIndexFlush(p) ==
    /\ pc[p] = "wi_flush"
    /\ indexMx' = [indexMx EXCEPT !.writer = None]
    /\ \E fails \in MayFail(TRUE) :
        /\ Fault(fails)
        /\ IF fails
           THEN \E k \in -1..Len(mbox[p].messages) :
                /\ index' = [index EXCEPT ![Path(p)] =
                                PartialStream(mbox[p].name, mbox[p].messages, k)]
                /\ AfterWriteIndex(p, TRUE, raw)
           ELSE /\ index' = [index EXCEPT ![Path(p)] = writeIndexStream(mbox[p])]
                /\ AfterWriteIndex(p, FALSE, raw)
    /\ UNCHANGED <<dirs, dirMx, idCount, opsLeft, pool, useLock>>

\* A variant of the empty-mailbox branch of writeIndex that returns without
\* indexMx.Unlock().
RemoveDir_KeepsIndexMx(p) ==
    /\ pc[p] = "rd_body"
    /\ dirMx' = None
    /\ UNCHANGED indexMx
    /\ \E fails \in MayFail(Path(p) \in dirs) :
        /\ Fault(fails)
        /\ IF fails
           THEN /\ UNCHANGED <<dirs, index>>
                /\ AfterWriteIndex(p, TRUE, raw)
           ELSE /\ dirs' = removeDir(dirs, Path(p))
                /\ index' = [index EXCEPT ![Path(p)] = NoFile]
                /\ AfterWriteIndex(p, FALSE, [raw EXCEPT ![Path(p)] = {}])
    /\ UNCHANGED <<idCount, opsLeft, pool, useLock>>

\* writeIndex line 422 with no messages: removeDir under dirMx removes the
\* mailbox directory with its index and raw files, then the empty parents.
RemoveDir(p) ==
    /\ pc[p] = "rd_body"
    /\ dirMx' = None
    /\ indexMx' = [indexMx EXCEPT !.writer = None]
    /\ \E fails \in MayFail(Path(p) \in dirs) :
        /\ Fault(fails)
        /\ IF fails
           THEN /\ UNCHANGED <<dirs, index>>
                /\ AfterWriteIndex(p, TRUE, raw)
           ELSE /\ dirs' = removeDir(dirs, Path(p))
                /\ index' = [index EXCEPT ![Path(p)] = NoFile]
                /\ AfterWriteIndex(p, FALSE, [raw EXCEPT ![Path(p)] = {}])
    /\ UNCHANGED <<idCount, opsLeft, pool, useLock>>

\* removeMessage line 328: os.Remove(msg.rawPath()) once the index is
\* written and messages remain; fails when the file is not there.
RemoveRaw(p) ==
    /\ pc[p] = "rm_raw"
    /\ IF fm[p].Fid \notin raw[Path(p)]
       THEN UNCHANGED <<raw, ioFailed, faultsLeft>> /\ Return(p, "err", <<>>, FALSE)
       ELSE \E fails \in MayFail(TRUE) :
            /\ Fault(fails)
            /\ IF fails THEN UNCHANGED raw /\ Return(p, "err", <<>>, FALSE)
               ELSE /\ raw' = [raw EXCEPT ![Path(p)] = @ \ {fm[p].Fid}]
                    /\ Return(p, "ok", <<>>, FALSE)
    /\ UNCHANGED <<dirs, index, indexMx, dirMx, idCount, opsLeft, pool, useLock>>

\* One step of caller p in a Store operation; the generator is left alone.
Step(p) ==
    \/ Start(p) /\ UNCHANGED <<gen, walk>>
    \/ RLock(p) /\ UNCHANGED <<gen, walk>>
    \/ ReadIndex(p) /\ UNCHANGED <<gen, walk>>
    \/ DirLock(p) /\ UNCHANGED <<gen, walk>>
    \/ CreateDir(p) /\ UNCHANGED <<gen, walk>>
    \/ RawCreate(p) /\ UNCHANGED <<gen, walk>>
    \/ RawCopy(p) /\ UNCHANGED <<gen, walk>>
    \/ WLock(p) /\ UNCHANGED <<gen, walk>>
    \/ WriteIndexCreateDir(p) /\ UNCHANGED <<gen, walk>>
    \/ WriteIndexCreate(p) /\ UNCHANGED <<gen, walk>>
    \/ WriteIndexFlush(p) /\ UNCHANGED <<gen, walk>>
    \/ RemoveDir(p) /\ UNCHANGED <<gen, walk>>
    \/ RemoveRaw(p) /\ UNCHANGED <<gen, walk>>

Next == \E p \in Procs : Step(p)

\* Two callers on a store that already holds messages.
Spec == InitStored /\ [][Next]_vars

\* One caller on a new store: every call returns before the next is issued.
NextSeq == Step("p1")

SpecSeq == Init /\ [][NextSeq]_vars

\* One caller on a store that holds messages, with I/O failures.
SpecFault == InitFault /\ [][NextSeq]_vars

\* ----------------------------------------------------------- VisitMailboxes
\* A directory name as a number (names in one directory have one length).
RECURSIVE NameNum(_)
NameNum(t) == IF t = <<>> THEN 0 ELSE 10 * NameNum(SubSeq(t, 1, Len(t) - 1)) + t[Len(t)]

RECURSIVE SortByName(_)
SortByName(S) ==
    IF S = {} THEN <<>>
    ELSE LET m == CHOOSE x \in S :
                    \A y \in S : NameNum(x[Len(x)]) <= NameNum(y[Len(y)])
         IN  <<m>> \o SortByName(S \ {m})

\* ioutil.ReadDir(path), the entries that are directories, sorted by name.
ReadDir(ds, path) == SortByName(Readdirnames(ds, path))

\* A caller starts VisitMailboxes.
VisitStart(p) ==
    /\ pc[p] = "idle"
    /\ opsLeft > 0
    /\ opsLeft' = opsLeft - 1
    /\ call' = [call EXCEPT ![p] = [NoCall EXCEPT !.op = "Visit"]]
    /\ pc' = [pc EXCEPT ![p] = "v_root"]
    /\ walk' = [walk EXCEPT ![p] = NoWalk]
    /\ mbox' = [mbox EXCEPT ![p] = NewHandle("")]
    /\ fm' = [fm EXCEPT ![p] = NoMsg]
    /\ ret' = [ret EXCEPT ![p] = None]
    /\ out' = [out EXCEPT ![p] = <<>>]
    /\ before' = [before EXCEPT ![p] = NoDisk]
    /\ UNCHANGED <<dirs, index, raw, indexMx, dirMx, hashLock, idCount, pool, useLock,
                   faultsLeft, ioFailed, onlyAdds, cleanFail, added, live>>

\* The visitor keeps going: true, or asks to stop: false.
VisitorAnswers == BOOLEAN

\* One ioutil.ReadDir of the walk, or the step to the next mailbox directory
\* of the innermost loop (a handle without name for it, then getMessages),
\* or the return nil when all three loops are done.
VisitNext(p) ==
    /\ pc[p] \in {"v_root", "v_next"}
    /\ LET w == walk[p]
           dir == IF pc[p] = "v_root" THEN <<>>
                  ELSE IF w.l2s # <<>> THEN Head(w.l2s)
                  ELSE IF w.l1s # <<>> THEN Head(w.l1s) ELSE <<>>
       IN  IF pc[p] = "v_next" /\ w.l3s # <<>>
           THEN /\ walk' = [walk EXCEPT ![p].l3s = Tail(w.l3s)]
                /\ call' = [call EXCEPT ![p].box = StoredBox(Head(w.l3s))]
                /\ pc' = [pc EXCEPT ![p] = "ri_lock"]
                /\ mbox' = [mbox EXCEPT ![p] = NewHandle("")]
                /\ UNCHANGED <<fm, ret, out, hashLock, added, live, cleanFail, onlyAdds,
                               ioFailed, faultsLeft, before>>
           ELSE IF pc[p] = "v_next" /\ w.l2s = <<>> /\ w.l1s = <<>>
           THEN /\ Return(p, "ok", <<>>, FALSE)
                /\ UNCHANGED <<walk, ioFailed, faultsLeft>>
           ELSE IF dir # <<>> /\ dir \notin dirs
           THEN /\ Return(p, "err", <<>>, FALSE)
                /\ UNCHANGED <<walk, ioFailed, faultsLeft>>
           ELSE \E fails \in MayFail(TRUE) :
                /\ Fault(fails)
                /\ IF fails
                   THEN Return(p, "err", <<>>, FALSE) /\ UNCHANGED walk
                   ELSE /\ walk' = [walk EXCEPT ![p] =
                              IF pc[p] = "v_root"
                              THEN [w EXCEPT !.l1s = ReadDir(dirs, dir)]
                              ELSE IF w.l2s # <<>>
                              THEN [w EXCEPT !.l2s = Tail(w.l2s),
                                             !.l3s = ReadDir(dirs, dir),
                                             !.found = @ \o ReadDir(dirs, dir)]
                              ELSE [w EXCEPT !.l1s = Tail(w.l1s),
                                             !.l2s = ReadDir(dirs, dir)]]
                        /\ Goto(p, "v_next", mbox[p], fm[p])
    /\ UNCHANGED <<dirs, index, raw, indexMx, dirMx, idCount, opsLeft, pool, useLock>>

\* A variant of the visitor call that goes on whatever the visitor answers.
VisitCall_IgnoresAnswer(p) ==
    /\ pc[p] = "v_call"
    /\ \E cont \in VisitorAnswers :
        /\ walk' = [walk EXCEPT ![p].visited = Append(@, Path(p)),
                                ![p].stopped = ~cont]
        /\ Goto(p, "v_next", mbox[p], fm[p])
    /\ UNCHANGED <<dirs, index, raw, indexMx, dirMx, idCount, opsLeft, pool, useLock,
                   ioFailed, faultsLeft>>

\* f(msgs): the visitor is called with the messages of the mailbox; false
\* ends the walk with nil.
VisitCall(p) ==
    /\ pc[p] = "v_call"
    /\ \E cont \in VisitorAnswers :
        /\ walk' = [walk EXCEPT ![p].visited = Append(@, Path(p)),
                                ![p].stopped = ~cont]
        /\ IF cont THEN Goto(p, "v_next", mbox[p], fm[p])
           ELSE Return(p, "ok", getMessages(mbox[p].messages), FALSE)
    /\ UNCHANGED <<dirs, index, raw, indexMx, dirMx, idCount, opsLeft, pool, useLock,
                   ioFailed, faultsLeft>>

\* One step of a caller inside VisitMailboxes.
VisitStep(p) ==
    \/ VisitStart(p) /\ UNCHANGED gen
    \/ VisitNext(p) /\ UNCHANGED gen
    \/ VisitCall(p) /\ UNCHANGED gen

\* mb.getMessages() of the walk: readIndex under the read lock.
LoadStep(p) ==
    \/ RLock(p) /\ UNCHANGED <<gen, walk>>
    \/ ReadIndex(p) /\ UNCHANGED <<gen, walk>>

NextVisit == VisitStep("p1") \/ LoadStep("p1")

InitVisit ==
    /\ Stored(MaxVisitStored)
    /\ opsLeft = MaxVisits
    /\ faultsLeft = MaxVisitFaults
    /\ genLeft = 0

\* One caller of VisitMailboxes on a store that holds messages, with I/O
\* failures.
SpecVisit == InitVisit /\ [][NextVisit]_vars

\* ------------------------------------------- an outside holder of the lock
\* Somebody outside the callers (a delivery pipeline, say) holds the advisory
\* lock of mailbox ma in write mode: LockFor("ma").Lock(), taken before any
\* operation starts and kept.
Outside == "outside"

HoldLock ==
    /\ hashLock[MboxPath("ma")] = None
    /\ opsLeft = MaxOps
    /\ hashLock' = [hashLock EXCEPT ![MboxPath("ma")] = Outside]
    /\ UNCHANGED <<dirs, index, raw, indexMx, dirMx, pc, call, mbox, fm, ret, out,
                   idCount, opsLeft, pool, useLock, faultsLeft, ioFailed, onlyAdds,
                   cleanFail, added, live, gen, walk, before>>

NextHeld == HoldLock \/ \E p \in Procs : Step(p) \/ VisitStep(p)

\* Two callers of all six operations, with and without the outside holder.
SpecHeld == InitStored /\ [][NextHeld]_vars

\* Two callers of all six operations, each scheduled fairly while it is
\* inside an operation (the Go scheduler runs every runnable goroutine).
Work(p) == pc[p] # "idle" /\ (Step(p) \/ VisitStep(p))
NextAll == \E p \in Procs : Step(p) \/ VisitStep(p)
SpecFair == InitStored /\ [][NextAll]_vars /\ \A p \in Procs : WF_vars(Work(p))

\* ------------------------------------------------- the identifier generator
store == <<dirs, index, raw, indexMx, dirMx, hashLock, pc, call, mbox, fm, ret, out,
           idCount, opsLeft, pool, useLock, faultsLeft, ioFailed, onlyAdds, cleanFail,
           added, live, before>>

\* A variant of the counter that steps by two.
NextCount_Skip(i) == (i + 2) % CounterMod

\* i = (i + 1) % 10000
NextCount(i) == (i + 1) % CounterMod

\* A variant of the send that only ever puts values into the buffer.
CanSend_BufferOnly == recvWait = {} /\ Len(countChannel) < ChanCap

\* The send c <- i can complete: a receiver is waiting or the buffer has room.
CanSend == recvWait # {} \/ Len(countChannel) < ChanCap

\* countGenerator: one iteration of the loop.  The send hands the value to a
\* blocked receiver if there is one (which of several is not fixed), else
\* it puts it into the buffer; it blocks while the buffer is full.
countGenerator ==
    /\ CanSend
    /\ IF recvWait # {}
       THEN \E q \in recvWait :
                /\ recvWait' = recvWait \ {q}
                /\ issued' = issued + 1
                /\ lastIssued' = genI
                /\ UNCHANGED countChannel
       ELSE /\ countChannel' = Append(countChannel, genI)
            /\ UNCHANGED <<recvWait, issued, lastIssued>>
    /\ genI' = NextCount(genI)
    /\ UNCHANGED <<genLeft, store, walk>>

\* generateID called by p: <-countChannel takes the oldest buffered value,
\* or blocks p when the buffer is empty.
generateID(p) ==
    /\ genLeft > 0
    /\ p \notin recvWait
    /\ genLeft' = genLeft - 1
    /\ IF countChannel # <<>>
       THEN /\ countChannel' = Tail(countChannel)
            /\ issued' = issued + 1
            /\ lastIssued' = Head(countChannel)
            /\ UNCHANGED recvWait
       ELSE /\ recvWait' = recvWait \cup {p}
            /\ UNCHANGED <<countChannel, issued, lastIssued>>
    /\ UNCHANGED <<genI, store, walk>>

NextGen == countGenerator \/ \E p \in Procs : generateID(p)

\* The generator and its callers alone, on a new store.
EmptyStoreNoCalls ==
    /\ InitCallers
    /\ ~useLock /\ pool = {"ma", "mb"}
    /\ dirs = {}
    /\ index = [d \in MboxDirs |-> NoFile]
    /\ raw = [d \in MboxDirs |-> {}]
    /\ idCount = 0
    /\ added = [d \in MboxDirs |-> <<>>]
    /\ live = [d \in MboxDirs |-> {}]
    /\ opsLeft = 0
    /\ faultsLeft = 0

InitGen == EmptyStoreNoCalls /\ genLeft = MaxIssued

SpecGen == InitGen /\ [][NextGen]_vars

\* The same with few calls, the producer goroutine scheduled fairly.
InitGenLive == EmptyStoreNoCalls /\ genLeft = MaxGenCalls

SpecGenLive == InitGenLive /\ [][NextGen]_vars /\ WF_vars(countGenerator)

\* --------------------------------------------------------------- properties
Quiescent == \A p \in Procs : pc[p] = "idle"
Returned(p, o, r) == pc[p] = "idle" /\ call[p].op = o /\ ret[p] = r
Recs(f) == {f.recs[i] : i \in 1..Len(f.recs)}
Distinct(msgs) == Cardinality(IdsOf(msgs)) = Len(msgs)

\* C1: after AddMessage calls that succeeded one after another on a mailbox
\* that started empty (each on a fresh handle), GetMessages returns exactly
\* the added messages, one entry per add, in the order of the adds.
C1_GetMessagesReturnsAdds ==
    \A p \in Procs :
        (Returned(p, "GetAll", "ok") /\ onlyAdds[Path(p)]) =>
            /\ EncodeAll(out[p]) = added[Path(p)]
            /\ Distinct(out[p])

C1_Witness ==
    \E p \in Procs :
        /\ Returned(p, "GetAll", "ok")
        /\ onlyAdds[Path(p)]
        /\ Len(out[p]) = 3

\* C2: in every reachable state (also in the middle of an operation), under
\* any interleaving of AddMessage, RemoveMessage and PurgeMessages, also on
\* one mailbox without the advisory lock, every entry of a mailbox's on-disk
\* index has its raw file on disk.
C2_IndexEntryHasRawFile ==
    \A d \in MboxDirs : IndexIds(index[d]) \subseteq raw[d]

\* The same with callers that take the mailbox's advisory lock around
\* AddMessage, RemoveMessage and PurgeMessages, and no failing I/O call.
LockedIndexEntryHasRawFile ==
    (useLock /\ ~ioFailed) => \A d \in MboxDirs : IndexIds(index[d]) \subseteq raw[d]

LockedRemoveAfterAdd ==
    \E p, q \in Procs :
        /\ p # q /\ useLock
        /\ Returned(p, "Add", "ok")
        /\ fm[p].Fid \in IndexIds(index[Path(p)])
        /\ call[q].op = "Remove" /\ pc[q] = "rm_raw" /\ Path(q) = Path(p)

\* C3: in every quiescent state reached without an I/O failure, under any
\* interleaving of AddMessage, RemoveMessage and PurgeMessages, also on one
\* mailbox, every raw file on disk has an entry in its mailbox's on-disk
\* index.
C3_RawFileHasIndexEntry ==
    (Quiescent /\ ~ioFailed) => \A d \in MboxDirs : raw[d] \subseteq IndexIds(index[d])

\* The same with callers that take the mailbox's advisory lock around
\* AddMessage, RemoveMessage and PurgeMessages.
LockedRawFileHasIndexEntry ==
    (Quiescent /\ ~ioFailed /\ useLock) =>
        \A d \in MboxDirs : raw[d] \subseteq IndexIds(index[d])

LockedTwoAdds ==
    \E p, q \in Procs :
        /\ p # q /\ useLock /\ Quiescent
        /\ Returned(p, "Add", "ok") /\ Returned(q, "Add", "ok")
        /\ Path(p) = Path(q)
        /\ {fm[p].Fid, fm[q].Fid} \subseteq raw[Path(p)]

\* C4: while a writeIndex runs (from taking indexMx to its return) no other
\* readIndex or writeIndex runs, so a readIndex never reads an index file
\* that is partly written; several readIndex may run at once.
WriteSteps == {"wcd_lock", "wcd_body", "wi_create", "wi_flush", "rd_lock", "rd_body"}
PartlyWritten(f) == f.exists /\ (~f.hasHdr \/ f.torn)

C4_WriteIndexExclusive ==
    /\ \A p \in Procs : pc[p] \in WriteSteps =>
          /\ indexMx.writer = p /\ indexMx.readers = {}
          /\ \A q \in Procs \ {p} : pc[q] \notin WriteSteps \cup {"ri_read"}
    /\ \A p \in Procs : pc[p] = "ri_read" =>
          /\ p \in indexMx.readers /\ indexMx.writer = None
          /\ ~PartlyWritten(index[Path(p)])

C4_Witness ==
    \E p, q \in Procs :
        /\ pc[p] = "wi_flush" /\ PartlyWritten(index[Path(p)])
        /\ pc[q] = "ri_lock" /\ Path(q) = Path(p)

C4_TwoReaders == \E p, q \in Procs : p # q /\ pc[p] = "ri_read" /\ pc[q] = "ri_read"

\* C5: a mailbox directory that exists has both its shard directories, and
\* it and they stay on disk through every step that is not a removeDir on
\* that mailbox itself.
HasAncestors(ds, d) == Dir(d) \in ds /\ Dir(Dir(d)) \in ds
RemoveDirOn(d) == \E p \in Procs : pc[p] = "rd_body" /\ Path(p) = d /\ pc'[p] # "rd_body"

C5_ShardAncestorsStay ==
    [][\A d \in MboxDirs :
          /\ d \in dirs => HasAncestors(dirs, d)
          /\ d \in dirs' => HasAncestors(dirs', d)
          /\ (d \in dirs /\ ~RemoveDirOn(d)) => d \in dirs']_vars

C5_Witness ==
    \E p, q \in Procs :
        /\ pc[p] = "rd_body" /\ Path(p) \in dirs
        /\ call[q].op = "Add" /\ pc[q] = "raw_create" /\ Path(q) \in dirs
        /\ Path(q) # Path(p) /\ Dir(Path(q)) = Dir(Path(p))
        /\ added[Path(q)] = <<>>

\* C6: when RemoveMessage removes the last message of a mailbox, on return
\* the mailbox directory, its index and its raw files are gone; the level-2
\* shard directory is gone exactly when it held nothing else, the level-1
\* directory exactly when the level-2 one went and it held nothing else;
\* no other directory changes.
C6_RemoveLastPrunes ==
    [][\A p \in Procs :
          (pc[p] = "rd_body" /\ call[p].op = "Remove" /\ pc'[p] = "idle") =>
            LET d == Path(p)
                l2 == Dir(d)
                l1 == Dir(l2)
                l2stays == Readdirnames(dirs, l2) \ {d} # {}
                l1stays == l2stays \/ Readdirnames(dirs, l1) \ {l2} # {}
            IN  /\ ret'[p] = "ok"
                /\ d \notin dirs' /\ index'[d] = NoFile /\ raw'[d] = {}
                /\ (l2 \in dirs') = l2stays
                /\ (l1 \in dirs') = l1stays
                /\ dirs' \ {d, l2, l1} = dirs \ {d, l2, l1}]_vars

C6_Witness ==
    \E p \in Procs :
        /\ Returned(p, "Remove", "ok")
        /\ Path(p) \notin dirs
        /\ Dir(Path(p)) \notin dirs
        /\ Dir(Dir(Path(p))) \in dirs

\* C7: when AddMessage has returned an error, the raw file of that attempt is
\* not on disk unless its removal failed; when it has returned success, the
\* raw file is on disk and the on-disk index holds the new entry.
C7_AddCleansUp ==
    \A p \in Procs :
        /\ (Returned(p, "Add", "err") /\ p \notin cleanFail) =>
              fm[p].Fid \notin raw[Path(p)]
        /\ Returned(p, "Add", "ok") =>
              /\ out[p] = <<fm[p]>>
              /\ fm[p].Fid \in raw[Path(p)]
              /\ EncodeMsg(fm[p]) \in Recs(index[Path(p)])
              /\ ~PartlyWritten(index[Path(p)])

AddFailedInWriteIndex ==
    \E p \in Procs :
        /\ Returned(p, "Add", "err")
        /\ p \notin cleanFail
        /\ fm[p].Fid \in IndexIds(index[Path(p)])
        /\ fm[p].Fid \notin raw[Path(p)]

\* C8: PurgeMessages returns success and leaves no directory, index or raw
\* file of the mailbox; on a mailbox that has no directory it leaves the
\* whole disk as it was (so a second purge changes nothing).
C8_PurgeIdempotent ==
    [][\A p \in Procs :
          (pc[p] = "rd_body" /\ call[p].op = "Purge" /\ pc'[p] = "idle") =>
            /\ ret'[p] = "ok"
            /\ Path(p) \notin dirs'
            /\ index'[Path(p)] = NoFile /\ raw'[Path(p)] = {}
            /\ Path(p) \notin dirs => <<dirs, index, raw>>' = <<dirs, index, raw>>]_vars

C8_Witness ==
    \E p \in Procs :
        /\ Returned(p, "Purge", "ok")
        /\ call[p].again
        /\ added[Path(p)] # <<>>
        /\ Path(p) \notin dirs

\* C9: no step of GetMessage or GetMessages changes a directory, an index
\* file or a raw file; GetMessage on a mailbox without a directory returns
\* the not-found error, for any identifier.
C9_GetLeavesDisk ==
    [][\A p \in Procs :
          (pc'[p] # pc[p] /\ call'[p].op \in {"Get", "GetAll"}) =>
            /\ <<dirs, index, raw>>' = <<dirs, index, raw>>
            /\ (pc'[p] = "idle" /\ call'[p].op = "Get" /\ Path(p) \notin dirs) =>
                    ret'[p] = "notfound"]_vars

C9_Witness ==
    \E p \in Procs :
        /\ Returned(p, "Get", "notfound")
        /\ call[p].id = Latest
        /\ added[Path(p)] = <<>>
        /\ Path(p) \notin dirs /\ ~index[Path(p)].exists

\* C10: a writeIndex of a non-empty sequence that succeeds leaves an index
\* file holding exactly that sequence, and readIndex of that file on a fresh
\* handle yields a sequence equal to it in length, order and in every
\* entry's identifier, date, from, to, subject and size.
SameFields(m, n) ==
    /\ m.Fid = n.Fid /\ m.Fdate = n.Fdate /\ m.Ffrom = n.Ffrom
    /\ m.Fto = n.Fto /\ m.Fsubject = n.Fsubject /\ m.Fsize = n.Fsize

C11_SequenceInOrder ==
    /\ issued > 0 => lastIssued = (issued - 1) % CounterMod
    /\ \A k \in 1..Len(countChannel) :
          countChannel[k] = (issued + k - 1) % CounterMod

C11_Witness ==
    /\ issued = CounterMod + 1
    /\ lastIssued = 0
    /\ recvWait # {}

\* C17: the channel never holds more than 10 values, countGenerator is
\* blocked exactly when the channel is full, a caller waits only while the
\* channel is empty, and with the producer scheduled fairly every caller
\* blocked in generateID is eventually served.
C17_GenerateIDReturns ==
    /\ [](/\ Len(countChannel) <= ChanCap
          /\ (ENABLED countGenerator) = (Len(countChannel) < ChanCap)
          /\ recvWait # {} => countChannel = <<>>)
    /\ \A p \in Procs : (p \in recvWait) ~> (p \notin recvWait)

C17_Witness ==
    /\ recvWait = Procs
    /\ countChannel = <<>>
    /\ issued > ChanCap

\* C12: VisitMailboxes calls the visitor at most once per mailbox directory
\* it found, in the order found; it makes no call after the visitor has
\* returned false or after a directory read or index load failed; it returns
\* nil after a stop, the error after a failure, and nil with every mailbox
\* directory visited otherwise.
IsPrefix(a, b) == Len(a) <= Len(b) /\ \A i \in 1..Len(a) : a[i] = b[i]
NoRepeat(a) == \A i, j \in 1..Len(a) : a[i] = a[j] => i = j

C12_VisitStops ==
    /\ [](\A p \in Procs :
            LET w == walk[p]
            IN  /\ NoRepeat(w.visited) /\ IsPrefix(w.visited, w.found)
                /\ w.stopped => Returned(p, "Visit", "ok")
                /\ (Returned(p, "Visit", "ok") /\ ~w.stopped) =>
                      /\ w.visited = w.found
                      /\ {w.found[i] : i \in 1..Len(w.found)} = dirs \cap MboxDirs)
    /\ [][\A p \in Procs :
            /\ (pc[p] # "idle" /\ walk'[p].visited # walk[p].visited) =>
                  pc[p] = "v_call" /\ ~walk[p].stopped /\ ret[p] = None
            /\ (walk'[p].stopped /\ ~walk[p].stopped) =>
                  pc'[p] = "idle" /\ ret'[p] = "ok"
            /\ (call[p].op = "Visit" /\ pc[p] # "idle" /\ faultsLeft' # faultsLeft) =>
                  pc'[p] = "idle" /\ ret'[p] = "err"
                  /\ walk'[p].visited = walk[p].visited]_vars

C12_Witness ==
    \E p \in Procs :
        /\ Returned(p, "Visit", "ok")
        /\ walk[p].stopped
        /\ Len(walk[p].visited) = 1
        /\ Len(walk[p].found) = 2

\* C13: no step inside AddMessage, GetMessage, GetMessages, RemoveMessage,
\* PurgeMessages or VisitMailboxes takes or releases an advisory lock, and
\* none waits for one: a caller inside an operation can always take its next
\* step unless it waits for indexMx or dirMx held by another caller, and
\* while any operation is in progress some caller can take a step, whoever
\* holds the advisory locks.
Running(p) == pc[p] # "idle"
CanStep(p) == ENABLED (Step(p) \/ VisitStep(p))
WaitsForIndexMx(p) ==
    \/ pc[p] = "ri_lock" /\ indexMx.writer \notin {None, p}
    \/ pc[p] = "wi_lock" /\ (indexMx.writer \notin {None, p} \/ indexMx.readers \ {p} # {})
WaitsForDirMx(p) ==
    pc[p] \in {"cd_lock", "wcd_lock", "rd_lock"} /\ dirMx \notin {None, p}

C13_AdvisoryLockNotTaken ==
    /\ [](/\ \A p \in Procs :
                Running(p) => CanStep(p) \/ WaitsForIndexMx(p) \/ WaitsForDirMx(p)
          /\ (\E p \in Procs : Running(p)) => \E p \in Procs : Running(p) /\ CanStep(p))
    /\ [][\A p \in Procs :
            (Running(p) /\ pc'[p] # pc[p]) =>
                \A d \in MboxDirs :
                    hashLock'[d] # hashLock[d] =>
                        pc'[p] = "idle" /\ hashLock[d] = p /\ d = Path(p)]_vars

C13_Witness ==
    \E p, q \in Procs :
        /\ p # q /\ ~useLock
        /\ hashLock[MboxPath("ma")] = Outside
        /\ Returned(p, "Add", "ok") /\ call[p].box = "ma"
        /\ Returned(q, "Visit", "ok") /\ Len(walk[q].visited) > 0

\* The readIndex step of caller p meets an index file whose stream ends
\* inside a record or before the header, and the open does not fail.
DecodeFails(p) ==
    /\ pc[p] = "ri_read" /\ pc'[p] # "ri_read"
    /\ PartlyWritten(index[Path(p)])
    /\ faultsLeft' = faultsLeft
AfterDecodeError(p) == readIndex(mbox[p], index[Path(p)], p, FALSE)
Repaired(f) == [f EXCEPT !.hasHdr = TRUE, !.torn = FALSE]

\* C14: when readIndex fails on a decode error after k records, the handle
\* has indexLoaded false and an empty message sequence, the caller receives
\* the error and no messages, and a next readIndex on the handle loads from
\* disk.
C14_DecodeErrorDiscards ==
    [][\A p \in Procs :
          DecodeFails(p) =>
            LET r == AfterDecodeError(p)
                again == readIndex(r.mb, Repaired(index[Path(p)]), p, FALSE)
            IN  /\ r.err /\ ~r.mb.indexLoaded
                /\ r.mb.messages = <<>>
                /\ pc'[p] = "idle" /\ ret'[p] = "err" /\ out'[p] = <<>>
                /\ ~again.err /\ again.mb.indexLoaded
                /\ EncodeAll(again.mb.messages) = index[Path(p)].recs]_vars

\* C14 amended: when readIndex fails on a decode error after k records, the
\* handle has indexLoaded false and its message sequence holds exactly the k
\* records decoded before the failure; the caller receives the error and no
\* messages, and a next readIndex on the handle clears the sequence and
\* loads from disk.
C14_DecodeErrorKeepsRecords ==
    [][\A p \in Procs :
          DecodeFails(p) =>
            LET r == AfterDecodeError(p)
                again == readIndex(r.mb, Repaired(index[Path(p)]), p, FALSE)
            IN  /\ r.err /\ ~r.mb.indexLoaded
                /\ EncodeAll(r.mb.messages) = index[Path(p)].recs
                /\ pc'[p] = "idle" /\ ret'[p] = "err" /\ out'[p] = <<>>
                /\ ~again.err /\ again.mb.indexLoaded
                /\ EncodeAll(again.mb.messages) = index[Path(p)].recs]_vars

C14_Witness ==
    \E p \in Procs :
        /\ pc[p] = "idle" /\ ret[p] = "err" /\ out[p] = <<>>
        /\ call[p].op \in {"Get", "GetAll", "Remove"}
        /\ index[Path(p)].torn
        /\ Len(index[Path(p)].recs) >= 1
        /\ faultsLeft = 0

\* C15: in every quiescent state reached by completed AddMessage,
\* RemoveMessage and PurgeMessages calls, also AddMessage calls that returned
\* an error after createDir succeeded, a mailbox directory is on disk only
\* with an index file that holds at least one record, and no index file
\* holds zero records.
C15_NoEmptyMailboxDir ==
    Quiescent =>
        \A d \in MboxDirs :
            /\ d \in dirs => index[d].exists /\ Len(index[d].recs) > 0
            /\ index[d].exists => Len(index[d].recs) > 0

\* C16: RemoveMessage(id) on a mailbox whose index holds an entry with that
\* id returns success with exactly that entry gone from the index and the
\* others in their order; when messages remain only that message's raw file
\* is gone and nothing else on disk changed; when no entry has the id it
\* returns not-found and the disk is as it was.
Without(recs, id) == SelectSeq(recs, LAMBDA r : r[1] # id)

C16_RemoveExactlyOne ==
    \A p \in Procs :
        (pc[p] = "idle" /\ call[p].op = "Remove") =>
            LET d == Path(p)
                id == call[p].id
                was == before[p]
                recs == was[2][d].recs
            IN  IF id \in IndexIds(was[2][d])
                THEN /\ ret[p] = "ok"
                     /\ index[d].recs = Without(recs, id)
                     /\ Len(index[d].recs) = Len(recs) - 1
                     /\ \A e \in MboxDirs \ {d} : index[e] = was[2][e] /\ raw[e] = was[3][e]
                     /\ Len(recs) > 1 =>
                            /\ raw[d] = was[3][d] \ {id}
                            /\ index[d] = [was[2][d] EXCEPT !.recs = Without(recs, id)]
                            /\ dirs = was[1]
                ELSE /\ ret[p] = "notfound"
                     /\ <<dirs, index, raw>> = was

C16_Witness ==
    \E p \in Procs :
        /\ Returned(p, "Remove", "ok")
        /\ Len(before[p][2][Path(p)].recs) = 3
        /\ before[p][2][Path(p)].recs[2][1] = call[p].id
        /\ IndexIds(index[Path(p)]) = raw[Path(p)]

\* C18: between the return of createDir and the call of writeIndex (creating
\* and streaming the raw file) AddMessage holds neither indexMx nor dirMx;
\* a caller working on another mailbox can then take its next step, whatever
\* it is; and a caller inside an operation cannot step only while another
\* caller holds indexMx or dirMx.
Streaming(p) == call[p].op = "Add" /\ pc[p] \in {"raw_create", "raw_copy"}
HoldsIndexMx(p) == indexMx.writer = p \/ p \in indexMx.readers
HoldsDirMx(p) == dirMx = p

C18_StreamingHoldsNoLock ==
    \A p \in Procs :
        /\ Streaming(p) =>
            /\ ~HoldsIndexMx(p) /\ ~HoldsDirMx(p)
            /\ \A q \in Procs \ {p} :
                (Running(q) /\ Path(q) # Path(p)) => ENABLED Step(q)
        /\ (Running(p) /\ ~ENABLED Step(p)) =>
            \E q \in Procs \ {p} : Running(q) /\ (HoldsIndexMx(q) \/ HoldsDirMx(q))

C18_Witness ==
    \E p, q \in Procs :
        /\ p # q /\ Path(p) # Path(q)
        /\ Streaming(p) /\ pc[p] = "raw_copy"
        /\ call[q].op = "Add" /\ pc[q] = "wi_flush" /\ indexMx.writer = q

\* C19: dirMx is requested either with no lock held or while holding indexMx
\* in write mode inside writeIndex; indexMx is never requested by a caller
\* that holds dirMx or indexMx; a caller outside an operation holds neither;
\* no set of callers wait on each other in a cycle; and under fair
\* scheduling every operation that was started returns.
WaitsOn(p, q) ==
    \/ pc[p] = "ri_lock" /\ indexMx.writer = q
    \/ pc[p] = "wi_lock" /\ (indexMx.writer = q \/ q \in indexMx.readers)
    \/ pc[p] \in {"cd_lock", "wcd_lock", "rd_lock"} /\ dirMx = q

LockOrder ==
    \A p \in Procs :
        /\ pc[p] = "cd_lock" => ~HoldsIndexMx(p) /\ ~HoldsDirMx(p)
        /\ pc[p] \in {"wcd_lock", "rd_lock"} =>
                indexMx.writer = p /\ ~HoldsDirMx(p) /\ p \notin indexMx.readers
        /\ pc[p] \in {"ri_lock", "wi_lock"} => ~HoldsIndexMx(p) /\ ~HoldsDirMx(p)
        /\ HoldsDirMx(p) => pc[p] \in {"cd_body", "wcd_body", "rd_body"}
        /\ pc[p] = "idle" => ~HoldsIndexMx(p) /\ ~HoldsDirMx(p)

NoWaitCycle ==
    \A S \in SUBSET Procs :
        S # {} => \E p \in S : \A q \in S : ~WaitsOn(p, q)

C19_LockOrderNoDeadlock ==
    /\ [](LockOrder /\ NoWaitCycle)
    /\ \A p \in Procs : (pc[p] # "idle") ~> (pc[p] = "idle")

C19_Witness ==
    \E p, q \in Procs :
        /\ p # q
        /\ pc[p] = "wcd_lock" /\ indexMx.writer = p /\ WaitsOn(p, q)
        /\ pc[q] = "cd_body" /\ call[q].op = "Add"

\* C20: when every AddMessage, RemoveMessage and PurgeMessages call is made
\* by a caller holding the mailbox's advisory lock, each on a fresh handle,
\* and no I/O call fails, then whenever no operation is in progress the ids
\* in each mailbox's index file are the ids of its raw files, and they are
\* the ids added with success and not since removed or purged.
C20_LockedCallersAgree ==
    (Quiescent /\ useLock /\ ~ioFailed) =>
        \A d \in MboxDirs :
            /\ IndexIds(index[d]) = raw[d]
            /\ raw[d] = live[d]
            /\ Len(index[d].recs) = Cardinality(live[d])

C20_Witness ==
    \E p, q \in Procs :
        /\ p # q /\ useLock /\ ~ioFailed /\ Quiescent
        /\ Path(p) = Path(q)
        /\ Returned(p, "Add", "ok") /\ Returned(q, "Add", "ok")
        /\ {fm[p].Fid, fm[q].Fid} \subseteq live[Path(p)]
        /\ Cardinality(live[Path(p)]) > 2
====
